---- MODULE Spec2Model ----
(***************************************************************************)
(* Model of the ragas caching layer (src/ragas/cache.py) and of the        *)
(* output-repair loop of PydanticPrompt / RagasOutputParser                *)
(* (src/ragas/prompt/base.py).                                             *)
(***************************************************************************)
EXTENDS Integers, Sequences, FiniteSets, TLC

VARIABLES
  stack,          \* the chain of awaiting coroutines, innermost last
  ret,            \* value being returned to the innermost activation
  outcome,        \* how the caller's operation ended, "running" until then
  error,          \* the exception delivered to the caller
  budget,         \* max_retries the caller's operation started with
  calls,          \* number of llm.generate calls made
  repairs,        \* number of fix_output_format_prompt.generate calls issued
  accepted,       \* TRUE once some text was decoded successfully
  failed,         \* the llm.generate failure, with the counters when it happened
  heard,          \* the first two texts llm.generate answered with, in order
  multi_n,        \* generate_multiple: n, the number of candidates asked for
  resp,           \* generate_multiple: texts of resp.generations[0]
  multi_i,        \* generate_multiple: candidates handed to the parser so far
  output_models,  \* generate_multiple: the list of processed answers
  func,           \* the callable handed to cacher's decorator
  callA,          \* one call of the wrapper: receiver, *args, **kwargs
  callB,          \* another call of the same wrapper
  keyA,           \* _generate_cache_key of callA, NoKey until computed
  keyB,           \* _generate_cache_key of callB
  env,            \* os.environ.get("RAGAS_CACHE_ENABLED"), "unset" if absent
  cache_backend,  \* the backend's store: key -> value, Missing if absent
  is_async,       \* inspect.iscoroutinefunction(func)
  tasks,          \* per caller, the wrapper activation in progress
  last,           \* the call that completed last, as its caller saw it
  prev,           \* what the call completed before `last` was
  first,          \* per key, the value the first successful enabled call returned
  okruns,         \* per key, successful runs of func inside enabled calls
  racing,         \* callers whose calls in flight missed on the same key
  raceLog,        \* how the calls of the latest such race ended, in order
  produced,       \* per key, the values func has returned for calls with it
  issued,         \* number of calls started so far
  fault,          \* the backend operation that raised in the call completed last
  total_size,     \* make_batches: the number of items to split
  batch_size,     \* make_batches: the size asked for each batch
  batches,        \* make_batches: the list returned, NoBatches until then
  messages,       \* validate_messages: the user_input handed to the validator
  validated,      \* validate_messages: how the call ended, NotValidated until then
  samples,        \* EvaluationDataset.samples
  row,            \* the sample whose dict() was called and how the call ended
  rows            \* how to_hf_dataset() ended, NotCalled until then

repairVars == <<stack, ret, outcome, error, budget, calls, repairs, accepted, failed,
                heard>>
multiVars == <<multi_n, resp, multi_i, output_models>>
keyVars == <<func, callA, callB, keyA, keyB>>
cacheVars == <<env, cache_backend, is_async, tasks, last, prev, first, okruns>>
concVars == <<racing, raceLog, produced, issued, fault>>
batchVars == <<total_size, batch_size, batches>>
messageVars == <<messages, validated>>
sampleVars == <<samples, row, rows>>
utilVars == <<batchVars, messageVars, sampleVars>>
vars == <<repairVars, multiVars, keyVars, cacheVars, concVars, utilVars>>

(***************************************************************************)
(* Part I.  The repair loop: PydanticPrompt.generate and                   *)
(* RagasOutputParser.parse_output_string as a stack of activations.        *)
(***************************************************************************)

\* ---- bounds ----
\* largest retry budget the caller's operation is started with
MaxBudget == 3
\* interpreter limit on the depth of nested activations
RecursionLimit == 12

\* max_retries=3 passed by PydanticPrompt.generate
GenerateRetries == 3

\* Texts the model can return.  "good" decodes as the caller's output model,
\* "sio_good"/"sio_bad" decode as StringIO whose text field is "good"/"bad",
\* "bad" decodes as nothing.
Texts == {"bad", "good", "sio_bad", "sio_good"}

\* transport failures llm.generate can raise
LlmErrors == {"Timeout", "RateLimit"}

\* PydanticOutputParser.parse for the two output models in play: the caller's
\* ("user") and StringIO, the output model of FixOutputFormat ("fix").
Decodes(parser, text) ==
  IF parser = "fix" THEN text \in {"sio_bad", "sio_good"}
  ELSE text \in {"good", "good2"}

\* the text field of the StringIO a repair response decodes to
StringIOWhole(text) == text
StringIOText(text) == IF text = "sio_good" THEN "good" ELSE "bad"

\* result of super().parse(output_string) when it succeeds
ParseResult(parser, text) ==
  IF parser = "fix" THEN [model |-> "StringIO", text |-> StringIOText(text)]
  ELSE [model |-> "Output", text |-> text]

NoRet == [model |-> "none", text |-> "none"]
NoError == [type |-> "none", arg |-> "none"]
NoFailure == [e |-> "none", calls |-> 0, repairs |-> 0, left |-> 0]

\* the prompt text of the caller's request, and the one to_string builds for
\* FixOutputFormat from OutputStringAndPrompt(output_string, prompt_value)
OriginalPrompt == <<"original">>
FixPrompt(output_string, prompt_value) == <<"fix", output_string, prompt_value>>

\* generate with prompt_value = PromptValue(to_string(processed_data))
GenerateFrame(parser, retries, prompt) ==
  [op |-> "generate", parser |-> parser, max_retries |-> retries,
   output_string |-> "none", prompt_value |-> prompt, pc |-> "llm"]

ParseFrame(parser, retries, text, prompt) ==
  [op |-> "parse", parser |-> parser, max_retries |-> retries,
   output_string |-> text, prompt_value |-> prompt, pc |-> "try"]

Top == stack[Len(stack)]
Pop(s) == SubSeq(s, 1, Len(s) - 1)
SetPc(s, pc) == [s EXCEPT ![Len(s)].pc = pc]

\* `except OutputParserException` guards only super().parse(output_string)
HandlesAll(frame, exc) == frame.op = "parse"
Handles(frame, exc) ==
  frame.op = "parse" /\ frame.pc = "try" /\ exc = "OutputParserException"

\* the frames left once exc has unwound to the nearest handler (none: <<>>)
RECURSIVE Unwind(_, _)
Unwind(s, exc) ==
  IF s = <<>> THEN <<>>
  ELSE IF Handles(s[Len(s)], exc) THEN s
  ELSE Unwind(Pop(s), exc)

\* exc raised in the innermost activation
Raise(exc, arg, kind) ==
  LET s == Unwind(stack, exc) IN
  IF s = <<>>
  THEN /\ stack' = <<>>
       /\ outcome' = kind
       /\ error' = [type |-> exc, arg |-> arg]
  ELSE /\ stack' = SetPc(s, "except")
       /\ UNCHANGED <<outcome, error>>

\* a call that would exceed the interpreter's recursion limit
Call(s, frame) ==
  IF Len(s) < RecursionLimit
  THEN /\ stack' = Append(s, frame)
       /\ UNCHANGED <<outcome, error>>
  ELSE /\ stack' = <<>>
       /\ outcome' = "RecursionError"
       /\ error' = [type |-> "RecursionError", arg |-> "none"]

Running == outcome = "running" /\ stack # <<>>

\* generate: llm.generate answers with `text`, which is handed to
\* parse_output_string with this generate's max_retries
LlmRespond(text) ==
  /\ Running
  /\ UNCHANGED <<multiVars, keyVars, cacheVars, concVars, utilVars>>
  /\ heard' = IF Len(heard) < 2 THEN Append(heard, text) ELSE heard
  /\ Top.op = "generate" /\ Top.pc = "llm"
  /\ calls' = calls + 1
  /\ Call(SetPc(stack, "await_parse"), ParseFrame(Top.parser, Top.max_retries, text, Top.prompt_value))
  /\ UNCHANGED <<ret, budget, repairs, accepted, failed>>

\* generate: llm.generate raises
LlmFail(e) ==
  /\ Running
  /\ UNCHANGED <<multiVars, keyVars, cacheVars, concVars, utilVars>>
  /\ UNCHANGED heard
  /\ Top.op = "generate" /\ Top.pc = "llm"
  /\ calls' = calls + 1
  /\ failed' = IF failed = NoFailure
               THEN [e |-> e, calls |-> calls + 1, repairs |-> repairs,
                     left |-> IF Len(stack) > 1
                              THEN stack[Len(stack) - 1].max_retries
                              ELSE budget]
               ELSE failed
  /\ Raise(e, "none", "InvocationError")
  /\ UNCHANGED <<ret, budget, repairs, accepted>>

\* parse_output_string: result = super().parse(output_string)
ParseTry ==
  /\ Running
  /\ UNCHANGED <<multiVars, keyVars, cacheVars, concVars, utilVars>>
  /\ UNCHANGED heard
  /\ Top.op = "parse" /\ Top.pc = "try"
  /\ IF Decodes(Top.parser, Top.output_string)
     THEN /\ ret' = ParseResult(Top.parser, Top.output_string)
          /\ stack' = Pop(stack)
          /\ accepted' = TRUE
          /\ outcome' = IF Len(stack) = 1 THEN "Done" ELSE outcome
          /\ UNCHANGED error
     ELSE /\ Raise("OutputParserException", "none", "Uncaught")
          /\ UNCHANGED <<ret, accepted>>
  /\ UNCHANGED <<budget, calls, repairs, failed>>

\* parse_output_string, except branch, max_retries != 0:
\* await fix_output_format_prompt.generate(...)
ExceptRepair ==
  /\ Running
  /\ UNCHANGED <<multiVars, keyVars, cacheVars, concVars, utilVars>>
  /\ UNCHANGED heard
  /\ Top.op = "parse" /\ Top.pc = "except"
  /\ Top.max_retries # 0
  /\ repairs' = repairs + 1
  /\ Call(SetPc(stack, "await_fix"),
          GenerateFrame("fix", GenerateRetries,
                        FixPrompt(Top.output_string, Top.prompt_value)))
  /\ UNCHANGED <<ret, budget, calls, accepted, failed>>

\* parse_output_string, except branch, max_retries == 0:
\* raise RagasOutputParserException(num_retries=max_retries)
ExceptExhausted ==
  /\ Running
  /\ UNCHANGED <<multiVars, keyVars, cacheVars, concVars, utilVars>>
  /\ UNCHANGED heard
  /\ Top.op = "parse" /\ Top.pc = "except"
  /\ Top.max_retries = 0
  /\ Raise("RagasOutputParserException", Top.max_retries, "Exhausted")
  /\ UNCHANGED <<ret, budget, calls, repairs, accepted, failed>>

\* parse_output_string: the repair came back; recurse on result.text with
\* max_retries - 1
RepairReturnedSameBudget ==
  /\ Running
  /\ UNCHANGED <<multiVars, keyVars, cacheVars, concVars, utilVars>>
  /\ UNCHANGED heard
  /\ Top.op = "parse" /\ Top.pc = "await_fix"
  /\ ret # NoRet
  /\ Call(SetPc(stack, "await_rec"),
          ParseFrame(Top.parser, Top.max_retries, ret.text, Top.prompt_value))
  /\ ret' = NoRet
  /\ UNCHANGED <<budget, calls, repairs, accepted, failed>>
RepairReturned ==
  /\ Running
  /\ UNCHANGED <<multiVars, keyVars, cacheVars, concVars, utilVars>>
  /\ UNCHANGED heard
  /\ Top.op = "parse" /\ Top.pc = "await_fix"
  /\ ret # NoRet
  /\ Call(SetPc(stack, "await_rec"),
          ParseFrame(Top.parser, Top.max_retries - 1, ret.text, Top.prompt_value))
  /\ ret' = NoRet
  /\ UNCHANGED <<budget, calls, repairs, accepted, failed>>

\* `return await self.parse_output_string(...)` and generate's
\* `return self.process_output(answer, data)`: hand the value to the awaiter
Return ==
  /\ Running
  /\ UNCHANGED <<multiVars, keyVars, cacheVars, concVars, utilVars>>
  /\ UNCHANGED heard
  /\ Top.pc \in {"await_rec", "await_parse"}
  /\ ret # NoRet
  /\ stack' = Pop(stack)
  /\ outcome' = IF Len(stack) = 1 THEN "Done" ELSE outcome
  /\ UNCHANGED <<ret, error, budget, calls, repairs, accepted, failed>>

RepairNext ==
  \/ \E text \in Texts : LlmRespond(text)
  \/ \E e \in LlmErrors : LlmFail(e)
  \/ ParseTry
  \/ ExceptRepair
  \/ ExceptExhausted
  \/ RepairReturned
  \/ Return

\* ---- PydanticPrompt.generate_multiple ----
\* largest n generate_multiple is called with
MaxCandidates == 2

\* texts of the candidates: two that decode as the output model, to different
\* values, and one that does not
Completions == {"good", "good2", "bad"}

MultipleFrame(retries) ==
  [op |-> "generate_multiple", parser |-> "user", max_retries |-> retries,
   output_string |-> "none", prompt_value |-> OriginalPrompt, pc |-> "llm"]

\* generate_multiple: the one llm.generate(n=n) answers with the completions
\* `texts`; output_models = []
MultipleLlmRespond(texts) ==
  /\ Running
  /\ Top.op = "generate_multiple" /\ Top.pc = "llm"
  /\ calls' = calls + 1
  /\ resp' = texts
  /\ output_models' = <<>>
  /\ multi_i' = 0
  /\ stack' = SetPc(stack, "for")
  /\ UNCHANGED <<ret, outcome, error, budget, repairs, accepted, failed, heard,
                 multi_n>>
  /\ UNCHANGED <<keyVars, cacheVars, concVars, utilVars>>

\* generate_multiple: llm.generate raises
MultipleLlmFail(e) ==
  /\ Running
  /\ Top.op = "generate_multiple" /\ Top.pc = "llm"
  /\ calls' = calls + 1
  /\ failed' = [e |-> e, calls |-> calls + 1, repairs |-> repairs, left |-> budget]
  /\ Raise(e, "none", "InvocationError")
  /\ UNCHANGED <<ret, budget, repairs, accepted, heard, multiVars>>
  /\ UNCHANGED <<keyVars, cacheVars, concVars, utilVars>>

\* generate_multiple, `for i in range(n)`: the next candidate's text goes to
\* parse_output_string with max_retries of its own; resp.generations[0][i]
\* raises IndexError when the model gave fewer completions; after the loop
\* `return output_models`
MultipleForShorter ==
  /\ Running
  /\ Top.op = "generate_multiple" /\ Top.pc = "for"
  /\ IF multi_i = multi_n
     THEN /\ stack' = <<>>
          /\ outcome' = "Done"
          /\ UNCHANGED <<error, multi_i>>
     ELSE IF multi_i + 1 > Len(resp)
     THEN /\ stack' = <<>>
          /\ outcome' = "Done"
          /\ UNCHANGED <<error, multi_i>>
     ELSE /\ Call(SetPc(stack, "await_answer"),
                  ParseFrame(Top.parser, Top.max_retries, resp[multi_i + 1],
                             Top.prompt_value))
          /\ multi_i' = multi_i + 1
  /\ UNCHANGED <<ret, budget, calls, repairs, accepted, failed, heard,
                 multi_n, resp, output_models>>
  /\ UNCHANGED <<keyVars, cacheVars, concVars, utilVars>>
MultipleFor ==
  /\ Running
  /\ Top.op = "generate_multiple" /\ Top.pc = "for"
  /\ IF multi_i = multi_n
     THEN /\ stack' = <<>>
          /\ outcome' = "Done"
          /\ UNCHANGED <<error, multi_i>>
     ELSE IF multi_i + 1 > Len(resp)
     THEN /\ Raise("IndexError", "none", "IndexError")
          /\ UNCHANGED multi_i
     ELSE /\ Call(SetPc(stack, "await_answer"),
                  ParseFrame(Top.parser, Top.max_retries, resp[multi_i + 1],
                             Top.prompt_value))
          /\ multi_i' = multi_i + 1
  /\ UNCHANGED <<ret, budget, calls, repairs, accepted, failed, heard,
                 multi_n, resp, output_models>>
  /\ UNCHANGED <<keyVars, cacheVars, concVars, utilVars>>

\* generate_multiple: output_models.append(self.process_output(answer, data))
MultipleAppend ==
  /\ Running
  /\ Top.op = "generate_multiple" /\ Top.pc = "await_answer"
  /\ ret # NoRet
  /\ output_models' = Append(output_models, ret)
  /\ ret' = NoRet
  /\ stack' = SetPc(stack, "for")
  /\ UNCHANGED <<outcome, error, budget, calls, repairs, accepted, failed, heard,
                 multi_n, resp, multi_i>>
  /\ UNCHANGED <<keyVars, cacheVars, concVars, utilVars>>

MultipleNext ==
  \/ \E texts \in UNION {[1..k -> Completions] : k \in 0..multi_n} :
        MultipleLlmRespond(texts)
  \/ \E e \in LlmErrors : MultipleLlmFail(e)
  \/ MultipleFor
  \/ MultipleAppend
  \/ \E text \in Texts : LlmRespond(text)
  \/ \E e \in LlmErrors : LlmFail(e)
  \/ ParseTry
  \/ ExceptRepair
  \/ ExceptExhausted
  \/ RepairReturned
  \/ Return

(***************************************************************************)
(* Part II.  The fingerprint: _make_hashable and _generate_cache_key.       *)
(* Python values are tagged tuples; dicts, sets and models carry their      *)
(* insertion / iteration / declaration order, which the code sorts away.    *)
(***************************************************************************)

\* ---- bounds ----
\* integers 1..MaxInt are the scalar arguments
MaxInt == 2
\* longest list, tuple, set or dict in an argument
MaxLen == 2
\* most keyword arguments in one call
MaxKw == 2

PyInt(n) == <<"int", n>>
PyStr(x) == <<"str", x>>
PyObj(i) == <<"obj", i>>
PyList(elems) == <<"list", elems>>
PyTuple(elems) == <<"tuple", elems>>
PySet(elems) == <<"set", elems>>
PyDict(items) == <<"dict", items>>
PyModel(fields) == <<"model", fields>>

\* str(o) of an object without __str__: its address tells instances apart
ObjectStr(i) == <<"<object at 0x1>", "<object at 0x2>", "<object at 0x3>", "<object at 0x4>">>[i]

\* Python's order on the strings in play
StrOrder == <<"<object at 0x1>", "<object at 0x2>", "<object at 0x3>", "<object at 0x4>",
              "a", "b", "callbacks", "data", "llm", "n">>
StrRank(x) == CHOOSE i \in DOMAIN StrOrder : StrOrder[i] = x

\* Python's < on ints, strs and tuples
RECURSIVE PyLess(_, _), LexLess(_, _)
PyLess(u, v) ==
  IF u[1] = "int" /\ v[1] = "int" THEN u[2] < v[2]
  ELSE IF u[1] = "str" /\ v[1] = "str" THEN StrRank(u[2]) < StrRank(v[2])
  ELSE IF u[1] = "tuple" /\ v[1] = "tuple" THEN LexLess(u[2], v[2])
  ELSE FALSE
LexLess(x, y) ==
  IF x = <<>> THEN y # <<>>
  ELSE IF y = <<>> THEN FALSE
  ELSE IF x[1] = y[1] THEN LexLess(Tail(x), Tail(y))
  ELSE PyLess(x[1], y[1])

RECURSIVE Insert(_, _)
Insert(x, xs) ==
  IF xs = <<>> THEN <<x>>
  ELSE IF PyLess(x, xs[1]) THEN <<x>> \o xs
  ELSE <<xs[1]>> \o Insert(x, Tail(xs))

\* sorted(): stable, ascending
unsorted(xs) == xs
RECURSIVE sorted(_)
sorted(xs) ==
  IF xs = <<>> THEN <<>>
  ELSE Insert(xs[Len(xs)], sorted(SubSeq(xs, 1, Len(xs) - 1)))

\* BaseModel.model_dump(): the fields as a dict
model_dump(o) == PyDict(o[2])

RECURSIVE _make_hashable(_)
_make_hashable(o) ==
  IF o[1] \in {"tuple", "list"}
  THEN PyTuple([i \in DOMAIN o[2] |-> _make_hashable(o[2][i])])
  ELSE IF o[1] = "dict"
  THEN PyTuple(sorted([i \in DOMAIN o[2] |->
                 PyTuple(<<PyStr(o[2][i][1]), _make_hashable(o[2][i][2])>>)]))
  ELSE IF o[1] = "set"
  THEN PyTuple(sorted([i \in DOMAIN o[2] |-> _make_hashable(o[2][i])]))
  ELSE IF o[1] = "model"
  THEN _make_hashable(model_dump(o))
  ELSE o

EXCLUDE_KEYS == {"callbacks", "llm"}

\* json.dumps(..., default=str) of a canonical value, as the JSON syntax tree
RECURSIVE json_dumps(_)
json_dumps(o) ==
  IF o[1] = "tuple"
  THEN <<"array", [i \in DOMAIN o[2] |-> json_dumps(o[2][i])]>>
  ELSE IF o[1] = "int" THEN <<"number", o[2]>>
  ELSE IF o[1] = "str" THEN <<"string", o[2]>>
  ELSE <<"string", ObjectStr(o[2])>>

\* hashlib.sha256(...).hexdigest(), taken to be collision free
sha256(key_string) == <<"sha256", key_string>>

\* inspect.ismethod(func): true of a bound method only
ismethod(f) == f.style = "bound"

\* args[1:]
Slice1(args) == SubSeq(args, 2, Len(args))

_generate_cache_key(f, args, kwargs) ==
  LET args1 == IF ismethod(f) THEN Slice1(args) ELSE args
      filtered_kwargs == SelectSeq(kwargs, LAMBDA item : item[1] \notin EXCLUDE_KEYS)
      key_string == <<"object",
                      << <<"args", json_dumps(_make_hashable(PyTuple(args1)))>>,
                         <<"function", <<"string", f.qualname>> >>,
                         <<"kwargs", json_dumps(_make_hashable(PyDict(filtered_kwargs)))>> >> >>
  IN sha256(key_string)

\* *args as the wrapper receives them: a function decorated in a class body
\* is bound on attribute access and gets the receiver first; a decorated
\* bound method, or a plain function, gets the caller's arguments only
WrapperArgs(f, call) ==
  IF f.style = "classbody" THEN <<PyObj(call.recv)>> \o call.args ELSE call.args

cache_key_of(f, call) == _generate_cache_key(f, WrapperArgs(f, call), call.kwargs)

NoKey == <<"none">>

\* ---- the calls examined ----
SeqsUpTo(S, n) == UNION {[1..k -> S] : k \in 0..n}
Distinct(xs) == \A i, j \in DOMAIN xs : i # j => xs[i] # xs[j]
DistinctKeys(items) == \A i, j \in DOMAIN items : i # j => items[i][1] # items[j][1]

IntVals == {PyInt(i) : i \in 1..MaxInt}
DictKeys == {"a", "b"}
FlatLists == {PyList(xs) : xs \in SeqsUpTo(IntVals, MaxLen)}
FlatTuples == {PyTuple(xs) : xs \in SeqsUpTo(IntVals, MaxLen)}
FlatSets == {PySet(xs) : xs \in {ys \in SeqsUpTo(IntVals, MaxLen) : Distinct(ys)}}
FlatDicts == {PyDict(xs) : xs \in {ys \in SeqsUpTo(DictKeys \X IntVals, MaxLen) : DistinctKeys(ys)}}
PairVals == {v \in FlatLists \cup FlatTuples : Len(v[2]) = 2}
NestedVals ==
  {PyList(<<v>>) : v \in PairVals} \cup {PyDict(<< <<"a", v>> >>) : v \in PairVals}
OtherVals ==
  { PyStr("a"),
    PyList(<< PyTuple(<<PyStr("a"), PyInt(1)>>) >>),
    PyModel(<< <<"a", PyInt(1)>> >>),
    PyModel(<< <<"b", PyInt(1)>>, <<"a", PyInt(1)>> >>) }
ArgVals ==
  IntVals \cup FlatLists \cup FlatTuples \cup FlatSets \cup FlatDicts
    \cup NestedVals \cup OtherVals

KwItems ==
  ({"data"} \X ({PyInt(1)} \cup {v \in PairVals : v[1] = "list" /\ Distinct(v[2])}))
    \cup ({"n"} \X IntVals)
    \cup ({"llm"} \X {PyObj(3), PyObj(4)})
    \cup ({"callbacks"} \X {PyList(<<>>), PyList(<<PyObj(3)>>)})
KwargsVals == {xs \in SeqsUpTo(KwItems, MaxKw) : DistinctKeys(xs)}

Receivers == {1, 2}
Funcs == {[style |-> st, qualname |-> IF st = "function" THEN "f" ELSE "C.f"] :
            st \in {"function", "classbody", "bound"}}
NoFunc == [style |-> "none", qualname |-> "none"]
NoCall == [recv |-> 0, args |-> <<>>, kwargs |-> <<>>]

\* calls by position only, with one or two arguments, and calls by keyword only
PositionalCalls ==
  {[recv |-> r, args |-> <<v>>, kwargs |-> <<>>] : r \in Receivers, v \in ArgVals}
TwoArgCalls ==
  {[recv |-> r, args |-> xs, kwargs |-> <<>>] : r \in Receivers, xs \in [1..2 -> IntVals]}
KeywordCalls ==
  {[recv |-> r, args |-> <<>>, kwargs |-> kw] : r \in Receivers, kw \in KwargsVals}
CallFamilies == {PositionalCalls, TwoArgCalls, KeywordCalls}

\* the wrapper computes cache_key for each of the two calls
GenerateCacheKeys ==
  /\ func # NoFunc
  /\ keyA = NoKey
  /\ keyA' = cache_key_of(func, callA)
  /\ keyB' = cache_key_of(func, callB)
  /\ UNCHANGED <<func, callA, callB>>
  /\ UNCHANGED <<repairVars, multiVars, cacheVars, concVars, utilVars>>

KeyNext == GenerateCacheKeys

(***************************************************************************)
(* Part III.  The memoizer: cacher's async_wrapper and sync_wrapper around  *)
(* a wrapped callable, over a CacheInterface backend.                       *)
(***************************************************************************)

Callers == {1, 2}
EnvValues == {"unset", "0", "1"}
\* what the wrapped callable can return or raise
Values == {"None", "v1"}
FuncErrors == {"ValueError", "KeyError"}
FuncResults ==
  {[kind |-> "return", val |-> v] : v \in Values}
    \cup {[kind |-> "raise", val |-> e] : e \in FuncErrors}
NoResult == [kind |-> "none", val |-> "none"]
Missing == "<missing>"

\* the wrapped callable and the calls made through its wrapper
CachedFunc == [style |-> "function", qualname |-> "f"]
CachedCalls ==
  { [recv |-> 1, args |-> <<PyInt(1)>>, kwargs |-> <<>>],
    [recv |-> 1, args |-> <<PyInt(2)>>, kwargs |-> <<>>],
    [recv |-> 1, args |-> <<PyInt(1)>>, kwargs |-> << <<"llm", PyObj(3)>> >>] }
CacheKeys == {cache_key_of(CachedFunc, c) : c \in CachedCalls}

\* is_caching_enabled()
is_caching_enabled_default_on(e) == (IF e = "unset" THEN "1" ELSE e) = "1"
is_caching_enabled_unless_0(e) == e # "0"
is_caching_enabled(e) == (IF e = "unset" THEN "0" ELSE e) = "1"

\* CacheInterface.has_key / get / set on the store
has_key_by_value(store, key) == store[key] \notin {Missing, "None"}
has_key_always(store, key) == TRUE
has_key_never(store, key) == FALSE
has_key(store, key) == store[key] # Missing
get(store, key) == IF store[key] = Missing THEN "None" ELSE store[key]
set_once(store, key, value) ==
  IF store[key] = Missing THEN [store EXCEPT ![key] = value] ELSE store
set(store, key, value) == [store EXCEPT ![key] = value]

\* the store after func has completed inside an enabled call: line
\* `cache_backend.set(cache_key, result)` runs only if func returned
store_any_outcome(store, key, r) == set(store, key, r.val)
store_on_completion(store, key, r) ==
  IF r.kind = "return" THEN set(store, key, r.val) ELSE store

IdleTask == [pc |-> "idle", call |-> NoCall, key |-> NoKey, switch |-> "none",
             enabled |-> FALSE, ops |-> 0, before |-> <<>>, known |-> Missing]
NoRecord == [call |-> NoCall, key |-> NoKey, switch |-> "none",
             invocations |-> 0, func_result |-> NoResult, result |-> NoResult,
             ops |-> 0, before |-> <<>>, after |-> <<>>, known |-> Missing]
NoPrev == [call |-> NoCall, switch |-> "none", invocations |-> 0, raised |-> FALSE]

Summary(rec) ==
  [call |-> rec.call, switch |-> rec.switch, invocations |-> rec.invocations,
   raised |-> rec.func_result.kind = "raise"]

\* the caller of call `c` gets `result`; func was run `n` times and ended
\* with `fr`; the wrapper made `ops` backend operations
Complete(c, t, n, fr, result, ops, store) ==
  /\ last' = [call |-> t.call, key |-> t.key, switch |-> t.switch,
              invocations |-> n, func_result |-> fr, result |-> result,
              ops |-> ops, before |-> t.before, after |-> store,
              known |-> t.known]
  /\ prev' = IF last = NoRecord THEN NoPrev ELSE Summary(last)
  /\ first' = IF t.switch = "1" /\ result.kind = "return" /\ first[t.key] = Missing
              THEN [first EXCEPT ![t.key] = result.val]
              ELSE first
  /\ okruns' = IF t.switch = "1" /\ n = 1 /\ fr.kind = "return"
               THEN [okruns EXCEPT ![t.key] = @ + 1]
               ELSE okruns

\* the activation of a wrapper entered with `call`
Entered(call) ==
  LET key == cache_key_of(CachedFunc, call) IN
  [pc |-> "awaiting", call |-> call, key |-> key, switch |-> env,
   enabled |-> is_caching_enabled(env), ops |-> 0, before |-> cache_backend,
   known |-> first[key]]

\* async_wrapper up to its first await: a pass-through or a miss awaits func,
\* a hit returns the stored value
AsyncStart(c, call) ==
  /\ is_async
  /\ tasks[c].pc = "idle"
  /\ LET t == Entered(call) IN
     IF ~t.enabled
     THEN /\ tasks' = [tasks EXCEPT ![c] = t]
          /\ UNCHANGED <<cache_backend, last, prev, first, okruns>>
     ELSE IF has_key(cache_backend, t.key)
     THEN /\ Complete(c, t, 0, NoResult,
                      [kind |-> "return", val |-> get(cache_backend, t.key)],
                      2, cache_backend)
          /\ UNCHANGED <<cache_backend, tasks>>
     ELSE /\ tasks' = [tasks EXCEPT ![c] = [t EXCEPT !.ops = 1]]
          /\ UNCHANGED <<cache_backend, last, prev, first, okruns>>
  /\ UNCHANGED <<env, is_async>>

\* async_wrapper resumed: the awaited func returned or raised `r`
AsyncResumeNoStore(c, r) ==
  /\ is_async
  /\ tasks[c].pc = "awaiting"
  /\ Complete(c, tasks[c], 1, r, r, tasks[c].ops, cache_backend)
  /\ tasks' = [tasks EXCEPT ![c] = IdleTask]
  /\ UNCHANGED <<env, is_async, cache_backend>>
AsyncResume(c, r) ==
  /\ is_async
  /\ tasks[c].pc = "awaiting"
  /\ LET t == tasks[c]
         store == IF t.enabled THEN store_on_completion(cache_backend, t.key, r)
                  ELSE cache_backend
         ops == IF t.enabled /\ r.kind = "return" THEN t.ops + 1 ELSE t.ops
     IN /\ cache_backend' = store
        /\ Complete(c, t, 1, r, r, ops, store)
  /\ tasks' = [tasks EXCEPT ![c] = IdleTask]
  /\ UNCHANGED <<env, is_async>>

\* sync_wrapper, start to end; `r` is what func does if it is run
SyncCall(c, call, r) ==
  /\ ~is_async
  /\ tasks[c].pc = "idle"
  /\ LET t == Entered(call) IN
     IF ~t.enabled
     THEN /\ Complete(c, t, 1, r, r, 0, cache_backend)
          /\ UNCHANGED cache_backend
     ELSE IF has_key(cache_backend, t.key)
     THEN /\ Complete(c, t, 0, NoResult,
                      [kind |-> "return", val |-> get(cache_backend, t.key)],
                      2, cache_backend)
          /\ UNCHANGED cache_backend
     ELSE LET store == store_on_completion(cache_backend, t.key, r) IN
          /\ cache_backend' = store
          /\ Complete(c, t, 1, r, r, IF r.kind = "return" THEN 2 ELSE 1, store)
  /\ UNCHANGED <<env, is_async, tasks>>

\* the environment variable is changed
SetEnv(value) ==
  /\ env # value
  /\ env' = value
  /\ UNCHANGED <<cache_backend, is_async, tasks, last, prev, first, okruns>>

NoneInFlight == \A c \in Callers : tasks[c].pc = "idle"

\* calls issued one after another
SeqAsyncStart(c, call) == NoneInFlight /\ AsyncStart(c, call) /\ UNCHANGED <<repairVars, multiVars, keyVars, concVars, utilVars>>
SeqAsyncResume(c, r) == AsyncResume(c, r) /\ UNCHANGED <<repairVars, multiVars, keyVars, concVars, utilVars>>
SeqSyncCall(c, call, r) == SyncCall(c, call, r) /\ UNCHANGED <<repairVars, multiVars, keyVars, concVars, utilVars>>
SeqSetEnv(value) == SetEnv(value) /\ UNCHANGED <<repairVars, multiVars, keyVars, concVars, utilVars>>

CacheSeqNext ==
  \/ \E c \in Callers, call \in CachedCalls : SeqAsyncStart(c, call)
  \/ \E c \in Callers, r \in FuncResults : SeqAsyncResume(c, r)
  \/ \E c \in Callers, call \in CachedCalls, r \in FuncResults : SeqSyncCall(c, call, r)
  \/ \E value \in EnvValues : SeqSetEnv(value)

\* ---- calls of the async wrapper in flight at the same time ----

\* the task awaiting func is cancelled: CancelledError is raised at
\* `result = await func(*args, **kwargs)`
CancelledAsValue == [kind |-> "return", val |-> "CancelledError"]
Cancelled == [kind |-> "raise", val |-> "CancelledError"]

\* callers in flight that missed on `key`
Missers(key) ==
  {d \in Callers : tasks[d].pc = "awaiting" /\ tasks[d].enabled /\ tasks[d].key = key}

\* what raceLog keeps of the call of `c` that has just completed
Ended(c, r) ==
  [caller |-> c, key |-> tasks[c].key, func_result |-> r, result |-> last'.result,
   ops |-> last'.ops]

\* ---- bounds ----
\* number of calls made through the wrapper
MaxCalls == 3

\* what the calls see: two settings of the switch, func returning one of two
\* values or raising
RaceEnv == {"0", "1"}
RaceResults ==
  {[kind |-> "return", val |-> v] : v \in Values}
    \cup {[kind |-> "raise", val |-> "ValueError"]}

ConcAsyncStart(c, call) ==
  /\ issued < MaxCalls
  /\ issued' = issued + 1
  /\ AsyncStart(c, call)
  /\ LET key == cache_key_of(CachedFunc, call)
         miss == is_caching_enabled(env) /\ ~has_key(cache_backend, key)
     IN IF miss /\ Missers(key) # {}
        THEN /\ racing' = racing \cup Missers(key) \cup {c}
             /\ raceLog' = <<>>
        ELSE UNCHANGED <<racing, raceLog>>
  /\ UNCHANGED <<produced, fault>>
  /\ UNCHANGED <<repairVars, multiVars, keyVars, utilVars>>

ConcAsyncResume(c, r) ==
  /\ AsyncResume(c, r)
  /\ produced' = IF r.kind = "return"
                 THEN [produced EXCEPT ![tasks[c].key] = @ \cup {r.val}]
                 ELSE produced
  /\ IF c \in racing
     THEN /\ raceLog' = Append(raceLog, Ended(c, r))
          /\ racing' = racing \ {c}
     ELSE UNCHANGED <<racing, raceLog>>
  /\ UNCHANGED <<issued, fault>>
  /\ UNCHANGED <<repairVars, multiVars, keyVars, utilVars>>

ConcCancel(c) ==
  /\ AsyncResume(c, Cancelled)
  /\ IF c \in racing
     THEN /\ raceLog' = Append(raceLog, Ended(c, Cancelled))
          /\ racing' = racing \ {c}
     ELSE UNCHANGED <<racing, raceLog>>
  /\ UNCHANGED <<produced, issued, fault>>
  /\ UNCHANGED <<repairVars, multiVars, keyVars, utilVars>>

ConcSetEnv(value) == SetEnv(value) /\ UNCHANGED <<repairVars, multiVars, keyVars, concVars, utilVars>>

CacheConcNext ==
  \/ \E c \in Callers, call \in CachedCalls : ConcAsyncStart(c, call)
  \/ \E c \in Callers, r \in RaceResults : ConcAsyncResume(c, r)
  \/ \E c \in Callers : ConcCancel(c)
  \/ \E value \in RaceEnv : ConcSetEnv(value)

\* ---- calls during which a backend operation raises ----

BackendOps == {"has_key", "get", "set"}
BackendError(op) ==
  CASE op = "has_key" -> "OSError in has_key"
    [] op = "get" -> "OSError in get"
    [] OTHER -> "OSError in set"

\* neither wrapper has a try around has_key, get or set: what the backend
\* raises is what the caller gets
TreatedAsHit(op) == [kind |-> "return", val |-> "None"]
Propagated(op) == [kind |-> "raise", val |-> BackendError(op)]

\* sync_wrapper in which `op` raises: has_key at once, get after has_key said
\* yes, set after has_key said no and func returned `r`
FaultySyncCall(c, call, r, op) ==
  /\ ~is_async
  /\ tasks[c].pc = "idle"
  /\ LET t == Entered(call) IN
     /\ t.enabled
     /\ CASE op = "has_key" ->
               Complete(c, t, 0, NoResult, Propagated(op), 1, cache_backend)
          [] op = "get" ->
               /\ has_key(cache_backend, t.key)
               /\ Complete(c, t, 0, NoResult, Propagated(op), 2, cache_backend)
          [] OTHER ->
               /\ ~has_key(cache_backend, t.key)
               /\ r.kind = "return"
               /\ Complete(c, t, 1, r, Propagated(op), 2, cache_backend)
  /\ fault' = op
  /\ UNCHANGED <<env, is_async, tasks, cache_backend>>
  /\ issued < MaxCalls
  /\ issued' = issued + 1
  /\ UNCHANGED <<racing, raceLog, produced>>
  /\ UNCHANGED <<repairVars, multiVars, keyVars, utilVars>>

\* async_wrapper in which has_key or get raises, before any await
FaultyAsyncStart(c, call, op) ==
  /\ is_async
  /\ NoneInFlight
  /\ op \in {"has_key", "get"}
  /\ LET t == Entered(call) IN
     /\ t.enabled
     /\ op = "get" => has_key(cache_backend, t.key)
     /\ Complete(c, t, 0, NoResult, Propagated(op),
                 IF op = "get" THEN 2 ELSE 1, cache_backend)
  /\ fault' = op
  /\ UNCHANGED <<env, is_async, tasks, cache_backend>>
  /\ issued < MaxCalls
  /\ issued' = issued + 1
  /\ UNCHANGED <<racing, raceLog, produced>>
  /\ UNCHANGED <<repairVars, multiVars, keyVars, utilVars>>

\* async_wrapper resumed with func's return value `r`, and set raises
FaultyAsyncResume(c, r) ==
  /\ is_async
  /\ tasks[c].pc = "awaiting"
  /\ tasks[c].enabled
  /\ r.kind = "return"
  /\ Complete(c, tasks[c], 1, r, Propagated("set"), tasks[c].ops + 1, cache_backend)
  /\ tasks' = [tasks EXCEPT ![c] = IdleTask]
  /\ fault' = "set"
  /\ UNCHANGED <<env, is_async, cache_backend>>
  /\ UNCHANGED <<racing, raceLog, produced, issued>>
  /\ UNCHANGED <<repairVars, multiVars, keyVars, utilVars>>

\* the same calls when no backend operation raises
SoundAsyncStart(c, call) ==
  /\ NoneInFlight
  /\ AsyncStart(c, call)
  /\ fault' = IF tasks'[c].pc = "idle" THEN "none" ELSE fault
  /\ issued < MaxCalls
  /\ issued' = issued + 1
  /\ UNCHANGED <<racing, raceLog, produced>>
  /\ UNCHANGED <<repairVars, multiVars, keyVars, utilVars>>

SoundAsyncResume(c, r) ==
  /\ AsyncResume(c, r)
  /\ fault' = "none"
  /\ UNCHANGED <<racing, raceLog, produced, issued>>
  /\ UNCHANGED <<repairVars, multiVars, keyVars, utilVars>>

SoundSyncCall(c, call, r) ==
  /\ SyncCall(c, call, r)
  /\ fault' = "none"
  /\ issued < MaxCalls
  /\ issued' = issued + 1
  /\ UNCHANGED <<racing, raceLog, produced>>
  /\ UNCHANGED <<repairVars, multiVars, keyVars, utilVars>>

CacheFaultyNext ==
  \/ \E c \in Callers, call \in CachedCalls, r \in RaceResults, op \in BackendOps :
        FaultySyncCall(c, call, r, op)
  \/ \E c \in Callers, call \in CachedCalls, op \in BackendOps :
        FaultyAsyncStart(c, call, op)
  \/ \E c \in Callers, r \in RaceResults : FaultyAsyncResume(c, r)
  \/ \E c \in Callers, call \in CachedCalls : SoundAsyncStart(c, call)
  \/ \E c \in Callers, r \in RaceResults : SoundAsyncResume(c, r)
  \/ \E c \in Callers, call \in CachedCalls, r \in RaceResults : SoundSyncCall(c, call, r)
  \/ \E value \in RaceEnv : ConcSetEnv(value)

(***************************************************************************)
(* Part IV: make_batches (src/ragas/metrics/base.py).  Python integers are *)
(* unbounded and `/` is true division, whose result is a double, so the    *)
(* sizes are kept as two limbs of LimbBits bits, <<high, low>>, and the    *)
(* division rounds its exact quotient to DoubleMantissa significant bits.  *)
(***************************************************************************)
MaxTotal == 12       \* total_size of the small calls ranges over 0..MaxTotal
MaxBatch == 6        \* batch_size of the small calls ranges over 1..MaxBatch
MaxWideQuot == 3     \* the large calls ask for up to this many full batches

LimbBits == 27
Limb == 2^LimbBits
DoubleMantissa == 53 \* significant bits of a Python float

\* the Python int n, 0 <= n < Limb
Wide(n) == <<0, n>>
Zero == Wide(0)

\* x < y
Less(x, y) == x[1] < y[1] \/ (x[1] = y[1] /\ x[2] < y[2])

\* x + y
Add(x, y) ==
  LET lo == x[2] + y[2] IN <<x[1] + y[1] + lo \div Limb, lo % Limb>>

\* x - y, for y <= x
Sub(x, y) ==
  LET lo == x[2] - y[2]
  IN IF lo >= 0 THEN <<x[1] - y[1], lo>> ELSE <<x[1] - y[1] - 1, lo + Limb>>

\* x * k, for a small k
Times(x, k) ==
  LET lo == x[2] * k IN <<x[1] * k + lo \div Limb, lo % Limb>>

\* x >> s, for s >= LimbBits
ShiftRight(x, s) == <<0, x[1] \div 2^(s - LimbBits)>>

\* divmod(a, b) on Python ints: exact
RECURSIVE DivMod(_, _, _)
DivMod(a, b, k) ==
  IF Less(a, b) THEN [quot |-> k, rem |-> a] ELSE DivMod(Sub(a, b), b, k + 1)

\* the binary exponent of the doubles just below the integer n >= 1
ExponentBelow(n) ==
  CHOOSE e \in -1..(LimbBits - 1) :
     2^(e + 1) >= n /\ \A f \in -1..(e - 1) : 2^(f + 1) < n

\* floor(total_size / batch_size): `/` rounds the exact quotient to the
\* nearest double, ties to even.  With q the exact integer quotient, q is a
\* double, so the result is q or, when the quotient lies within half an ulp
\* of q + 1, q + 1
FloorTrueDiv(a, b) ==
  LET d == DivMod(a, b, 0)
      s == DoubleMantissa - ExponentBelow(d.quot + 1)
  IN IF d.rem # Zero /\ ~Less(ShiftRight(b, s), Sub(b, d.rem))
     THEN d.quot + 1
     ELSE d.quot

NoBatches == <<"none">>

make_batches(total, batch) ==
  LET tail == DivMod(total, batch, 0).rem
      num_batches == FloorTrueDiv(total, batch)
      \* a range(start, stop) is <<start, stop>>
      full == [j \in 1..num_batches |->
                 <<Times(batch, j - 1), Add(Times(batch, j - 1), batch)>>]
  IN IF tail # Zero
     THEN Append(full, <<Times(batch, num_batches),
                         Add(Times(batch, num_batches), tail)>>)
     ELSE full

\* the calls examined: every small one, and large ones whose batch size is
\* around 2^(DoubleMantissa - 1) or 2^DoubleMantissa and whose total is at or
\* next to a multiple of it
BatchCalls ==
  {<<Wide(t), Wide(b)>> : t \in 0..MaxTotal, b \in 1..MaxBatch}
  \cup UNION {UNION {{<<Sub(Times(b, k), Wide(1)), b>>, <<Times(b, k), b>>,
                      <<Add(Times(b, k), Wide(1)), b>>} : k \in 1..MaxWideQuot}
              : b \in {<<2^(DoubleMantissa - 1 - LimbBits), 0>>,
                        <<2^(DoubleMantissa - LimbBits), 0>>,
                        <<2^(DoubleMantissa - LimbBits), 1>>}}

\* a caller runs make_batches(total_size, batch_size)
MakeBatches ==
  /\ batches = NoBatches
  /\ batches' = make_batches(total_size, batch_size)
  /\ UNCHANGED <<total_size, batch_size>>
  /\ UNCHANGED <<repairVars, multiVars, keyVars, cacheVars, concVars, messageVars, sampleVars>>

(***************************************************************************)
(* Part V: MultiTurnSample.validate_messages (src/ragas/dataset_schema.py) *)
(***************************************************************************)
MaxMessages == 3     \* the sequences validated hold up to this many messages

None == <<"None">>

HumanMessage == [type |-> "HumanMessage"]
ToolMessage == [type |-> "ToolMessage"]
AIMessage(tool_calls) == [type |-> "AIMessage", tool_calls |-> tool_calls]

\* tool_calls of an AIMessage: None, an empty list or a list with a call
ToolCalls == {None, PyList(<<>>), PyList(<<"call">>)}

\* the members of Union[HumanMessage, AIMessage, ToolMessage]
Messages == {HumanMessage, ToolMessage} \cup {AIMessage(c) : c \in ToolCalls}

\* prev_message = None
NoMessage == [type |-> "NoneType"]

isinstance(m, class) == m.type = class

\* bool() of the generator expression `(isinstance(m, ...) for m in messages)`:
\* a generator object is true whatever it would yield
GeneratorTruth(ms) == TRUE

\* `not prev_message.tool_calls`: true of None and of an empty list
tool_calls_is_empty(prev_message) ==
  prev_message.tool_calls \in {None, PyList(<<>>)}

\* `prev_message.tool_calls is None`
tool_calls_is_None(prev_message) == prev_message.tool_calls = None

NotValidated == [kind |-> "none"]
ValueError(message) == [kind |-> "ValueError", message |-> message]
ReturnedMessages(ms) == [kind |-> "returned", value |-> ms]

\* the loop `for m in messages`, from its i-th iteration on
RECURSIVE ForMessages(_, _, _)
ForMessages(ms, i, prev_message) ==
  IF i > Len(ms) THEN ReturnedMessages(ms)
  ELSE IF isinstance(ms[i], "ToolMessage") /\ ~isinstance(prev_message, "AIMessage")
  THEN ValueError("must be preceded by an AIMessage instance")
  ELSE IF isinstance(ms[i], "ToolMessage") /\ tool_calls_is_None(prev_message)
  THEN ValueError("must be preceded by an AIMessage instance with tool_calls")
  ELSE ForMessages(ms, i + 1, ms[i])

validate_messages(ms) ==
  IF ~GeneratorTruth(ms)
  THEN ValueError("all inputs must be instances of HumanMessage, AIMessage, or ToolMessage")
  ELSE ForMessages(ms, 1, NoMessage)

\* pydantic runs the validator on a user_input
ValidateMessages ==
  /\ validated = NotValidated
  /\ validated' = validate_messages(messages)
  /\ UNCHANGED messages
  /\ UNCHANGED <<repairVars, multiVars, keyVars, cacheVars, concVars, batchVars, sampleVars>>

(***************************************************************************)
(* Part VI: SingleTurnSample.dict and EvaluationDataset.to_hf_dataset      *)
(* (src/ragas/dataset_schema.py).  The samples are SingleTurnSample        *)
(* objects; a call deeper than RecursionLimit activations raises           *)
(* RecursionError, which nothing on the way out catches.                   *)
(***************************************************************************)
MaxSamples == 2      \* the datasets examined hold up to this many samples

\* the fields of SingleTurnSample
SingleTurnFields ==
  {"user_input", "retrieved_contexts", "ground_truth_contexts", "response",
   "multi_responses", "reference", "rubric"}

\* the samples examined: three of the fields are given a value or not, the
\* others keep their default, None
SingleTurnSamples ==
  {[f \in SingleTurnFields |-> IF f \in given THEN PyStr(f) ELSE None] :
      given \in SUBSET {"user_input", "response", "reference"}}

NotCalled == [kind |-> "none", value |-> <<>>, error |-> "none"]
ReturnedValue(v) == [kind |-> "returned", value |-> v, error |-> "none"]
RaisedError(e) == [kind |-> "raised", value |-> <<>>, error |-> e]

NoRow == [of |-> 0, result |-> NotCalled]

\* {k: v for k, v in row.items() if v is not None}
WithoutNone(mapping) ==
  [k \in {f \in DOMAIN mapping : mapping[f] # None} |-> mapping[k]]

\* self.dict(), entered as the depth-th activation on the stack: the body
\* starts by calling self.dict(), which is this method again
RECURSIVE dict(_, _)
dict(self, depth) ==
  IF depth > RecursionLimit THEN RaisedError("RecursionError")
  ELSE LET inner == dict(self, depth + 1)
       IN IF inner.kind = "raised" THEN inner
          ELSE ReturnedValue(WithoutNone(inner.value))

\* [sample.dict() for sample in self.samples], from the i-th sample on: the
\* rows built, or the first exception; to_hf_dataset and its comprehension
\* are the two activations below each dict()
RECURSIVE SampleRows(_, _, _)
SampleRows(ss, i, acc) ==
  IF i > Len(ss) THEN ReturnedValue(acc)
  ELSE LET r == dict(ss[i], 3)
       IN IF r.kind = "raised" THEN r ELSE SampleRows(ss, i + 1, Append(acc, r.value))

\* `for item in sample["user_input"]: ... item["content"]` on one row: the
\* key may be missing, and the items of a str are str
ItemsOf(sample) ==
  IF "user_input" \notin DOMAIN sample THEN RaisedError("KeyError")
  ELSE IF sample["user_input"][1] = "str" /\ sample["user_input"][2] # ""
  THEN RaisedError("TypeError")
  ELSE ReturnedValue(sample)

\* the loop `for sample in rows`, from the i-th row on
RECURSIVE ForRows(_, _)
ForRows(rs, i) ==
  IF i > Len(rs) THEN ReturnedValue(<<"Dataset", rs>>)
  ELSE IF ItemsOf(rs[i]).kind = "raised" THEN ItemsOf(rs[i])
  ELSE ForRows(rs, i + 1)

to_hf_dataset(ss) ==
  LET built == SampleRows(ss, 1, <<>>)
  IN IF built.kind = "raised" THEN built ELSE ForRows(built.value, 1)

\* a caller runs samples[i].dict()
SampleDict(i) ==
  /\ row = NoRow
  /\ row' = [of |-> i, result |-> dict(samples[i], 1)]
  /\ UNCHANGED <<samples, rows>>
  /\ UNCHANGED <<repairVars, multiVars, keyVars, cacheVars, concVars, batchVars,
                 messageVars>>

\* a caller runs to_hf_dataset() on the dataset
ToHfDataset ==
  /\ rows = NotCalled
  /\ rows' = to_hf_dataset(samples)
  /\ UNCHANGED <<samples, row>>
  /\ UNCHANGED <<repairVars, multiVars, keyVars, cacheVars, concVars, batchVars,
                 messageVars>>

SamplesNext ==
  \/ \E i \in DOMAIN samples : SampleDict(i)
  \/ ToHfDataset

\* a caller starts one operation with a budget of its choice
RepairInit ==
  /\ budget \in 0..MaxBudget
  /\ stack = <<GenerateFrame("user", budget, OriginalPrompt)>>
  /\ ret = NoRet
  /\ outcome = "running"
  /\ error = NoError
  /\ calls = 0
  /\ repairs = 0
  /\ accepted = FALSE
  /\ failed = NoFailure
  /\ heard = <<>>
  /\ multi_n = 0
  /\ resp = <<>>
  /\ multi_i = 0
  /\ output_models = <<>>
  \* no fingerprint under examination
  /\ func = NoFunc
  /\ callA = NoCall
  /\ callB = NoCall
  /\ keyA = NoKey
  /\ keyB = NoKey
  \* no memoizer in play
  /\ env = "unset"
  /\ cache_backend = <<>>
  /\ is_async = FALSE
  /\ tasks = <<>>
  /\ last = NoRecord
  /\ prev = NoPrev
  /\ first = <<>>
  /\ okruns = <<>>
  /\ racing = {}
  /\ raceLog = <<>>
  /\ produced = <<>>
  /\ issued = 0
  /\ fault = "none"
  \* no batches being made
  /\ total_size = Zero
  /\ batch_size = Wide(1)
  /\ batches = NoBatches
  \* no message sequence being validated
  /\ messages = <<>>
  /\ validated = NotValidated
  \* no dataset being converted
  /\ samples = <<>>
  /\ row = NoRow
  /\ rows = NotCalled

\* two calls of one wrapped callable, from the same family of calls
KeyInit ==
  /\ func \in Funcs
  /\ \E fam \in CallFamilies : callA \in fam /\ callB \in fam
  /\ callA.recv = 1
  /\ func.style = "function" => callB.recv = 1
  /\ keyA = NoKey
  /\ keyB = NoKey
  \* no repair operation under way
  /\ stack = <<>>
  /\ ret = NoRet
  /\ outcome = "idle"
  /\ error = NoError
  /\ budget = 0
  /\ calls = 0
  /\ repairs = 0
  /\ accepted = FALSE
  /\ failed = NoFailure
  /\ heard = <<>>
  /\ multi_n = 0
  /\ resp = <<>>
  /\ multi_i = 0
  /\ output_models = <<>>
  \* no memoizer in play
  /\ env = "unset"
  /\ cache_backend = <<>>
  /\ is_async = FALSE
  /\ tasks = <<>>
  /\ last = NoRecord
  /\ prev = NoPrev
  /\ first = <<>>
  /\ okruns = <<>>
  /\ racing = {}
  /\ raceLog = <<>>
  /\ produced = <<>>
  /\ issued = 0
  /\ fault = "none"
  \* no batches being made
  /\ total_size = Zero
  /\ batch_size = Wide(1)
  /\ batches = NoBatches
  \* no message sequence being validated
  /\ messages = <<>>
  /\ validated = NotValidated
  \* no dataset being converted
  /\ samples = <<>>
  /\ row = NoRow
  /\ rows = NotCalled

\* a freshly decorated callable over an empty backend
CacheInit ==
  /\ env \in EnvValues
  /\ cache_backend = [k \in CacheKeys |-> Missing]
  /\ is_async \in BOOLEAN
  /\ tasks = [c \in Callers |-> IdleTask]
  /\ last = NoRecord
  /\ prev = NoPrev
  /\ first = [k \in CacheKeys |-> Missing]
  /\ okruns = [k \in CacheKeys |-> 0]
  /\ racing = {}
  /\ raceLog = <<>>
  /\ produced = <<>>
  /\ issued = 0
  /\ fault = "none"
  \* no repair operation under way
  /\ stack = <<>>
  /\ ret = NoRet
  /\ outcome = "idle"
  /\ error = NoError
  /\ budget = 0
  /\ calls = 0
  /\ repairs = 0
  /\ accepted = FALSE
  /\ failed = NoFailure
  /\ heard = <<>>
  /\ multi_n = 0
  /\ resp = <<>>
  /\ multi_i = 0
  /\ output_models = <<>>
  \* no fingerprint under examination
  /\ func = NoFunc
  /\ callA = NoCall
  /\ callB = NoCall
  /\ keyA = NoKey
  /\ keyB = NoKey
  \* no batches being made
  /\ total_size = Zero
  /\ batch_size = Wide(1)
  /\ batches = NoBatches
  \* no message sequence being validated
  /\ messages = <<>>
  /\ validated = NotValidated
  \* no dataset being converted
  /\ samples = <<>>
  /\ row = NoRow
  /\ rows = NotCalled

\* a caller starts one generate_multiple for n candidates
MultipleInit ==
  /\ multi_n \in 1..MaxCandidates
  /\ budget = GenerateRetries
  /\ stack = <<MultipleFrame(budget)>>
  /\ resp = <<>>
  /\ multi_i = 0
  /\ output_models = <<>>
  /\ ret = NoRet
  /\ outcome = "running"
  /\ error = NoError
  /\ calls = 0
  /\ repairs = 0
  /\ accepted = FALSE
  /\ failed = NoFailure
  /\ heard = <<>>
  \* no fingerprint under examination
  /\ func = NoFunc
  /\ callA = NoCall
  /\ callB = NoCall
  /\ keyA = NoKey
  /\ keyB = NoKey
  \* no memoizer in play
  /\ env = "unset"
  /\ cache_backend = <<>>
  /\ is_async = FALSE
  /\ tasks = <<>>
  /\ last = NoRecord
  /\ prev = NoPrev
  /\ first = <<>>
  /\ okruns = <<>>
  /\ racing = {}
  /\ raceLog = <<>>
  /\ produced = <<>>
  /\ issued = 0
  /\ fault = "none"
  \* no batches being made
  /\ total_size = Zero
  /\ batch_size = Wide(1)
  /\ batches = NoBatches
  \* no message sequence being validated
  /\ messages = <<>>
  /\ validated = NotValidated
  \* no dataset being converted
  /\ samples = <<>>
  /\ row = NoRow
  /\ rows = NotCalled

\* a freshly decorated coroutine function over an empty backend
CacheConcInit ==
  /\ env \in RaceEnv
  /\ cache_backend = [k \in CacheKeys |-> Missing]
  /\ is_async = TRUE
  /\ tasks = [c \in Callers |-> IdleTask]
  /\ last = NoRecord
  /\ prev = NoPrev
  /\ first = [k \in CacheKeys |-> Missing]
  /\ okruns = [k \in CacheKeys |-> 0]
  /\ racing = {}
  /\ raceLog = <<>>
  /\ produced = [k \in CacheKeys |-> {}]
  /\ issued = 0
  /\ fault = "none"
  \* no repair operation under way
  /\ stack = <<>>
  /\ ret = NoRet
  /\ outcome = "idle"
  /\ error = NoError
  /\ budget = 0
  /\ calls = 0
  /\ repairs = 0
  /\ accepted = FALSE
  /\ failed = NoFailure
  /\ heard = <<>>
  /\ multi_n = 0
  /\ resp = <<>>
  /\ multi_i = 0
  /\ output_models = <<>>
  \* no fingerprint under examination
  /\ func = NoFunc
  /\ callA = NoCall
  /\ callB = NoCall
  /\ keyA = NoKey
  /\ keyB = NoKey
  \* no batches being made
  /\ total_size = Zero
  /\ batch_size = Wide(1)
  /\ batches = NoBatches
  \* no message sequence being validated
  /\ messages = <<>>
  /\ validated = NotValidated
  \* no dataset being converted
  /\ samples = <<>>
  /\ row = NoRow
  /\ rows = NotCalled

\* a freshly decorated callable over an empty backend that may fail
CacheFaultyInit ==
  /\ env \in RaceEnv
  /\ cache_backend = [k \in CacheKeys |-> Missing]
  /\ is_async \in BOOLEAN
  /\ tasks = [c \in Callers |-> IdleTask]
  /\ last = NoRecord
  /\ prev = NoPrev
  /\ first = [k \in CacheKeys |-> Missing]
  /\ okruns = [k \in CacheKeys |-> 0]
  /\ racing = {}
  /\ raceLog = <<>>
  /\ produced = <<>>
  /\ issued = 0
  /\ fault = "none"
  \* no repair operation under way
  /\ stack = <<>>
  /\ ret = NoRet
  /\ outcome = "idle"
  /\ error = NoError
  /\ budget = 0
  /\ calls = 0
  /\ repairs = 0
  /\ accepted = FALSE
  /\ failed = NoFailure
  /\ heard = <<>>
  /\ multi_n = 0
  /\ resp = <<>>
  /\ multi_i = 0
  /\ output_models = <<>>
  \* no fingerprint under examination
  /\ func = NoFunc
  /\ callA = NoCall
  /\ callB = NoCall
  /\ keyA = NoKey
  /\ keyB = NoKey
  \* no batches being made
  /\ total_size = Zero
  /\ batch_size = Wide(1)
  /\ batches = NoBatches
  \* no message sequence being validated
  /\ messages = <<>>
  /\ validated = NotValidated
  \* no dataset being converted
  /\ samples = <<>>
  /\ row = NoRow
  /\ rows = NotCalled

\* a caller is about to make batches
BatchesInit ==
  /\ \E c \in BatchCalls : total_size = c[1] /\ batch_size = c[2]
  /\ batches = NoBatches
  \* no message sequence being validated
  /\ messages = <<>>
  /\ validated = NotValidated
  \* no dataset being converted
  /\ samples = <<>>
  /\ row = NoRow
  /\ rows = NotCalled
  \* no repair operation under way
  /\ stack = <<>>
  /\ ret = NoRet
  /\ outcome = "idle"
  /\ error = NoError
  /\ budget = 0
  /\ calls = 0
  /\ repairs = 0
  /\ accepted = FALSE
  /\ failed = NoFailure
  /\ heard = <<>>
  /\ multi_n = 0
  /\ resp = <<>>
  /\ multi_i = 0
  /\ output_models = <<>>
  \* no fingerprint under examination
  /\ func = NoFunc
  /\ callA = NoCall
  /\ callB = NoCall
  /\ keyA = NoKey
  /\ keyB = NoKey
  \* no memoizer in play
  /\ env = "unset"
  /\ cache_backend = <<>>
  /\ is_async = FALSE
  /\ tasks = <<>>
  /\ last = NoRecord
  /\ prev = NoPrev
  /\ first = <<>>
  /\ okruns = <<>>
  /\ racing = {}
  /\ raceLog = <<>>
  /\ produced = <<>>
  /\ issued = 0
  /\ fault = "none"

\* a user_input is about to be validated
MessagesInit ==
  /\ messages \in UNION {[1..n -> Messages] : n \in 0..MaxMessages}
  /\ validated = NotValidated
  \* no dataset being converted
  /\ samples = <<>>
  /\ row = NoRow
  /\ rows = NotCalled
  \* no repair operation under way
  /\ stack = <<>>
  /\ ret = NoRet
  /\ outcome = "idle"
  /\ error = NoError
  /\ budget = 0
  /\ calls = 0
  /\ repairs = 0
  /\ accepted = FALSE
  /\ failed = NoFailure
  /\ heard = <<>>
  /\ multi_n = 0
  /\ resp = <<>>
  /\ multi_i = 0
  /\ output_models = <<>>
  \* no fingerprint under examination
  /\ func = NoFunc
  /\ callA = NoCall
  /\ callB = NoCall
  /\ keyA = NoKey
  /\ keyB = NoKey
  \* no memoizer in play
  /\ env = "unset"
  /\ cache_backend = <<>>
  /\ is_async = FALSE
  /\ tasks = <<>>
  /\ last = NoRecord
  /\ prev = NoPrev
  /\ first = <<>>
  /\ okruns = <<>>
  /\ racing = {}
  /\ raceLog = <<>>
  /\ produced = <<>>
  /\ issued = 0
  /\ fault = "none"
  \* no batches being made
  /\ total_size = Zero
  /\ batch_size = Wide(1)
  /\ batches = NoBatches

\* a dataset has been built
SamplesInit ==
  /\ samples \in UNION {[1..n -> SingleTurnSamples] : n \in 0..MaxSamples}
  /\ row = NoRow
  /\ rows = NotCalled
  \* no repair operation under way
  /\ stack = <<>>
  /\ ret = NoRet
  /\ outcome = "idle"
  /\ error = NoError
  /\ budget = 0
  /\ calls = 0
  /\ repairs = 0
  /\ accepted = FALSE
  /\ failed = NoFailure
  /\ heard = <<>>
  /\ multi_n = 0
  /\ resp = <<>>
  /\ multi_i = 0
  /\ output_models = <<>>
  \* no fingerprint under examination
  /\ func = NoFunc
  /\ callA = NoCall
  /\ callB = NoCall
  /\ keyA = NoKey
  /\ keyB = NoKey
  \* no memoizer in play
  /\ env = "unset"
  /\ cache_backend = <<>>
  /\ is_async = FALSE
  /\ tasks = <<>>
  /\ last = NoRecord
  /\ prev = NoPrev
  /\ first = <<>>
  /\ okruns = <<>>
  /\ racing = {}
  /\ raceLog = <<>>
  /\ produced = <<>>
  /\ issued = 0
  /\ fault = "none"
  \* no batches being made
  /\ total_size = Zero
  /\ batch_size = Wide(1)
  /\ batches = NoBatches
  \* no message sequence being validated
  /\ messages = <<>>
  /\ validated = NotValidated

SpecKey == KeyInit /\ [][KeyNext]_vars

SpecRepair == RepairInit /\ [][RepairNext]_vars

SpecCacheSeq == CacheInit /\ [][CacheSeqNext]_vars

SpecMultiple == MultipleInit /\ [][MultipleNext]_vars

SpecCacheConc == CacheConcInit /\ [][CacheConcNext]_vars

SpecCacheFaulty == CacheFaultyInit /\ [][CacheFaultyNext]_vars

SpecBatches == BatchesInit /\ [][MakeBatches]_vars

SpecMessages == MessagesInit /\ [][ValidateMessages]_vars

SpecSamples == SamplesInit /\ [][SamplesNext]_vars

(***************************************************************************)
(* Properties.                                                             *)
(***************************************************************************)

\* ---- relations between two calls, stated on the Python values ----

\* Python's == on values
RECURSIVE PyEq(_, _)
PyEq(u, v) ==
  IF u[1] # v[1] THEN FALSE
  ELSE IF u[1] \in {"int", "str", "obj"} THEN u[2] = v[2]
  ELSE IF u[1] \in {"list", "tuple"}
  THEN Len(u[2]) = Len(v[2]) /\ \A i \in DOMAIN u[2] : PyEq(u[2][i], v[2][i])
  ELSE IF u[1] \in {"dict", "model"}
  THEN /\ {u[2][i][1] : i \in DOMAIN u[2]} = {v[2][j][1] : j \in DOMAIN v[2]}
       /\ \A i \in DOMAIN u[2], j \in DOMAIN v[2] :
             u[2][i][1] = v[2][j][1] => PyEq(u[2][i][2], v[2][j][2])
  ELSE /\ \A i \in DOMAIN u[2] : \E j \in DOMAIN v[2] : PyEq(u[2][i], v[2][j])
       /\ \A j \in DOMAIN v[2] : \E i \in DOMAIN u[2] : PyEq(u[2][i], v[2][j])

\* the keyword arguments that belong to the logical call
LogicalKwargs(kwargs) == SelectSeq(kwargs, LAMBDA item : item[1] \notin {"llm", "callbacks"})

SameArgs(a, b) == PyEq(PyTuple(a.args), PyTuple(b.args))
SameKwargs(a, b) == PyEq(PyDict(LogicalKwargs(a.kwargs)), PyDict(LogicalKwargs(b.kwargs)))
SameLogicalCall(a, b) == a.recv = b.recv /\ SameArgs(a, b) /\ SameKwargs(a, b)

\* u and v differ only in the order of the distinct elements of one list or
\* tuple somewhere inside them
RECURSIVE ReorderedIn(_, _)
ReorderedIn(u, v) ==
  /\ u[1] = v[1]
  /\ u[1] \in {"list", "tuple", "dict"}
  /\ Len(u[2]) = Len(v[2])
  /\ \/ /\ u[1] \in {"list", "tuple"}
        /\ Distinct(u[2])
        /\ u[2] # v[2]
        /\ {u[2][i] : i \in DOMAIN u[2]} = {v[2][i] : i \in DOMAIN v[2]}
     \/ /\ u[1] \in {"list", "tuple"}
        /\ \E i \in DOMAIN u[2] :
              /\ ReorderedIn(u[2][i], v[2][i])
              /\ \A j \in DOMAIN u[2] \ {i} : u[2][j] = v[2][j]
     \/ /\ u[1] = "dict"
        /\ \E i \in DOMAIN u[2] :
              /\ u[2][i][1] = v[2][i][1]
              /\ ReorderedIn(u[2][i][2], v[2][i][2])
              /\ \A j \in DOMAIN u[2] \ {i} : u[2][j] = v[2][j]

ReorderedCall(a, b) ==
  /\ a.recv = b.recv
  /\ \/ /\ a.kwargs = b.kwargs
        /\ Len(a.args) = Len(b.args)
        /\ \E i \in DOMAIN a.args :
              /\ ReorderedIn(a.args[i], b.args[i])
              /\ \A j \in DOMAIN a.args \ {i} : a.args[j] = b.args[j]
     \/ /\ a.args = b.args
        /\ Len(a.kwargs) = Len(b.kwargs)
        /\ \E i \in DOMAIN a.kwargs :
              /\ a.kwargs[i][1] = b.kwargs[i][1]
              /\ a.kwargs[i][1] \notin {"llm", "callbacks"}
              /\ ReorderedIn(a.kwargs[i][2], b.kwargs[i][2])
              /\ \A j \in DOMAIN a.kwargs \ {i} : a.kwargs[j] = b.kwargs[j]

KeysComputed == keyA # NoKey /\ keyB # NoKey

\* C1: when every text the model returns is rejected by the decoder (and no
\* model call fails), the operation makes at most budget+1 model calls and
\* ends, after exactly budget+1 calls, with RagasOutputParserException.
C1_RepairBound ==
  (~accepted /\ failed = NoFailure) =>
     /\ calls <= budget + 1
     /\ outcome # "running" => (outcome = "Exhausted" /\ calls = budget + 1)

\* C2: every invocation ends in Done, Exhausted or a propagated invocation
\* error; it never runs away into unboundedly nested repair calls, which the
\* interpreter ends with a RecursionError.
C2_Terminates ==
  outcome \in {"running", "Done", "Exhausted", "InvocationError"}

\* C3: with calls issued one after another, an enabled call whose key has
\* already been returned for by a successful enabled call returns that stored
\* value without running the wrapped callable; so inside enabled calls the
\* wrapped callable completes successfully at most once per key.
C3_CacheHit ==
  /\ (last # NoRecord /\ last.switch = "1" /\ last.known # Missing) =>
        /\ last.result = [kind |-> "return", val |-> last.known]
        /\ last.invocations = 0
  /\ \A k \in DOMAIN okruns : okruns[k] <= 1

\* C3 witness: a later call was served the stored "v1" without running func
C3_Witness ==
  /\ last # NoRecord
  /\ last.switch = "1"
  /\ last.known = "v1"
  /\ last.invocations = 0
  /\ last.result = [kind |-> "return", val |-> "v1"]
  /\ prev.switch = "1" /\ prev.invocations = 1

\* C4: a call made with the switch off runs the wrapped callable exactly
\* once, hands its return value or error to the caller as is, and makes no
\* has_key, get or set: the backend is as before.  Two such calls run it twice.
C4_DisabledPassThrough ==
  /\ (last # NoRecord /\ last.switch # "1") =>
        /\ last.invocations = 1
        /\ last.result = last.func_result
        /\ last.ops = 0
        /\ last.after = last.before
  /\ (last # NoRecord /\ last.switch # "1" /\ prev.switch \in {"unset", "0"}) =>
        prev.invocations + last.invocations = 2

\* C4 witness: the switch is off, the backend holds another value for the
\* key, and the second of two identical calls still ran func
C4_Witness ==
  /\ last # NoRecord
  /\ last.switch = "unset"
  /\ prev.switch = "0"
  /\ prev.call = last.call
  /\ last.before[last.key] = "v1"
  /\ last.result = [kind |-> "return", val |-> "None"]
  /\ last.invocations = 1

\* C5: when the wrapped callable raises inside an enabled call, the caller
\* gets that error, the backend is as before and has no entry for the key,
\* and the next call with the same key runs the wrapped callable again.
C5_FailureNotCached ==
  /\ (last # NoRecord /\ last.switch = "1" /\ last.func_result.kind = "raise") =>
        /\ last.result = last.func_result
        /\ last.after = last.before
        /\ last.after[last.key] = Missing
  /\ (last # NoRecord /\ prev.switch = "1" /\ prev.raised
        /\ cache_key_of(CachedFunc, prev.call) = last.key) =>
        last.invocations = 1

\* C5 witness: an enabled call failed and the same call, made
\* again, ran func and returned
C5_Witness ==
  /\ last # NoRecord
  /\ prev.switch = "1" /\ prev.raised
  /\ prev.call = last.call
  /\ last.switch = "1"
  /\ last.invocations = 1
  /\ last.result = [kind |-> "return", val |-> "v1"]

\* C6: two calls of the same callable that are the same logical call (equal
\* positional arguments, equal keyword arguments whatever their order, dicts
\* and sets equal whatever their insertion or iteration order, 'llm' and
\* 'callbacks' keywords arbitrary) get the same cache key.
C6_Determinism ==
  (KeysComputed /\ SameLogicalCall(callA, callB)) => keyA = keyB

\* C6 witness: same logical call written with the keywords in another order
\* and another llm
C6_Witness ==
  /\ KeysComputed
  /\ SameLogicalCall(callA, callB)
  /\ Len(callA.kwargs) = 2 /\ Len(callB.kwargs) = 2
  /\ callA.kwargs[1][1] = "data" /\ callA.kwargs[2][1] = "llm"
  /\ callB.kwargs[1][1] = "llm" /\ callB.kwargs[2][1] = "data"
  /\ callA.kwargs[2][2] # callB.kwargs[1][2]
  /\ keyA = keyB

\* C7: two calls of the same callable (same receiver) that differ in a
\* non-excluded argument, be it only in the kind of the value or only in the
\* first positional argument of a bound method, get different cache keys.
C7_Discrimination ==
  (KeysComputed /\ callA.recv = callB.recv
     /\ ~(SameArgs(callA, callB) /\ SameKwargs(callA, callB)))
  => keyA # keyB

\* C8: for a wrapped method the receiver is not in the key (two receivers,
\* otherwise equal arguments: same key) and no real argument is left out
\* instead (same receiver, another first argument: another key).
C8_SelfExclusion ==
  (KeysComputed /\ func.style \in {"classbody", "bound"}) =>
     /\ (callA.recv # callB.recv /\ callA.args = callB.args
           /\ callA.kwargs = callB.kwargs) => keyA = keyB
     /\ (callA.recv = callB.recv /\ callA.kwargs = callB.kwargs
           /\ Len(callA.args) = Len(callB.args) /\ Len(callA.args) >= 1
           /\ callA.args[1][1] = "int" /\ callB.args[1][1] = "int"
           /\ callA.args[1] # callB.args[1]) => keyA # keyB

\* C9: two calls that differ only in the order of the distinct elements of a
\* list or tuple inside a positional or (non-excluded) keyword argument get
\* different cache keys.
C9_OrderSensitive ==
  (KeysComputed /\ ReorderedCall(callA, callB)) => keyA # keyB

\* C10: once llm.generate has raised, the operation is over: the caller gets
\* that very error, and no further model call or repair request is made and
\* no budget is spent (no activation is left to do so).
C10_InvocationFailureBypass ==
  failed # NoFailure =>
     /\ outcome = "InvocationError"
     /\ error = [type |-> failed.e, arg |-> "none"]
     /\ stack = <<>>
     /\ calls = failed.calls
     /\ repairs = failed.repairs

\* C10 witness: a repair request's model call failed while budget remained
C10_Witness ==
  /\ failed.e = "Timeout"
  /\ failed.repairs >= 1
  /\ failed.left >= 1
  /\ outcome = "InvocationError"

\* C11: when the first text the model returns is rejected by the decoder and
\* the answer to the first repair request decodes (it is a StringIO whose text
\* decodes as the caller's output model), an operation started with a budget
\* of at least 1 makes exactly 2 model calls and 1 repair request, hands the
\* second text on with budget-1, and can only end by returning the result
\* decoded from the second text.
C11_RepairSuccess ==
  (budget >= 1 /\ Len(heard) = 2 /\ ~Decodes("user", heard[1])
     /\ heard[2] = "sio_good") =>
     /\ calls = 2
     /\ repairs = 1
     /\ outcome \in {"running", "Done"}
     /\ outcome = "Done" => ret = [model |-> "Output", text |-> "good"]
     /\ \A i \in DOMAIN stack :
           (i > 2 /\ stack[i].op = "parse" /\ stack[i].parser = "user") =>
              /\ stack[i].output_string = "good"
              /\ stack[i].max_retries = budget - 1

\* C11 witness: budget 1, "bad" then a decodable repair answer, returned
C11_Witness ==
  /\ budget = 1
  /\ heard = <<"bad", "sio_good">>
  /\ outcome = "Done"
  /\ ret = [model |-> "Output", text |-> "good"]
  /\ calls = 2
  /\ repairs = 1

\* C12: in generate_multiple every candidate is parsed with a budget of its
\* own, and a candidate whose repairs are exhausted does not keep the others
\* from being parsed: when the operation is over with
\* RagasOutputParserException, all n candidates have been handed to the parser.
C12_CandidateIndependence ==
  /\ \A j \in DOMAIN stack :
        (j = 2 /\ stack[1].op = "generate_multiple") =>
           stack[j].max_retries = budget
  /\ (multi_n > 0 /\ outcome = "Exhausted") => multi_i = multi_n

\* C13: when an operation started with budget N ends with
\* RagasOutputParserException, the number of attempts the exception carries is
\* N, the repair attempts that were made (not a constant).
C13_ExhaustionDiagnostics ==
  outcome = "Exhausted" =>
     /\ error.type = "RagasOutputParserException"
     /\ error.arg = budget

\* C14: when two calls of the async wrapper in flight together have both
\* missed on the same key, each runs func, each returns what its own run of
\* func returned or raised, each one whose run returned makes its has_key and
\* its set, and once both are over the key holds the value written last.
C14_RacePolicy ==
  Len(raceLog) = 2 =>
     LET a == raceLog[1]
         b == raceLog[2]
     IN /\ a.key = b.key
        /\ a.caller # b.caller
        /\ a.result = a.func_result
        /\ b.result = b.func_result
        /\ a.func_result.kind = "return" => a.ops = 2
        /\ b.func_result.kind = "return" => b.ops = 2
        /\ b.func_result.kind = "return" => cache_backend[a.key] = b.result.val
        /\ (b.func_result.kind = "raise" /\ a.func_result.kind = "return") =>
              cache_backend[a.key] = a.result.val

\* C14 witness: the two calls returned different values and the key holds
\* the one written last
C14_Witness ==
  /\ Len(raceLog) = 2
  /\ raceLog[1].result = [kind |-> "return", val |-> "v1"]
  /\ raceLog[2].result = [kind |-> "return", val |-> "None"]
  /\ cache_backend[raceLog[1].key] = "None"

\* C15: every value the backend holds under a key was returned by a run of
\* func for a call with that key; and a call whose run of func raised or was
\* cancelled ends without a set: the step that ends it leaves the backend as
\* it was.
C15_OnlyCompletedStored ==
  /\ [](\A k \in DOMAIN cache_backend :
          cache_backend[k] # Missing => cache_backend[k] \in produced[k])
  /\ [][\A c \in Callers :
          (tasks[c].pc = "awaiting" /\ tasks'[c].pc = "idle"
             /\ last'.func_result.kind = "raise") =>
             /\ cache_backend' = cache_backend
             /\ last'.ops <= 1]_vars

\* C15 witness: a call was cancelled after its miss, a failing call followed,
\* the key is still absent
C15_Witness ==
  /\ last.switch = "1"
  /\ last.func_result = Cancelled
  /\ last.ops = 1
  /\ prev.switch = "1" /\ prev.raised
  /\ cache_backend[last.key] = Missing
  /\ \E k \in DOMAIN cache_backend : cache_backend[k] = "v1"

\* C16: once the backend holds a value for a key, no step of any call, in any
\* interleaving and whatever func returns, changes the value under that key.
C16_NeverMutated ==
  [][\A k \in DOMAIN cache_backend :
       cache_backend[k] # Missing => cache_backend'[k] = cache_backend[k]]_vars

\* C16, amended: a value the backend holds for a key is changed only by a
\* call that was already in flight, having missed on that key, before the
\* value was stored; no call that starts once the key is present changes it.
C16_NoLaterCallMutates ==
  [][\A k \in DOMAIN cache_backend :
       (cache_backend[k] # Missing /\ cache_backend'[k] # cache_backend[k]) =>
          \E c \in Callers :
             /\ tasks[c].pc = "awaiting" /\ tasks'[c].pc = "idle"
             /\ tasks[c].key = k
             /\ tasks[c].enabled
             /\ tasks[c].before[k] = Missing
             /\ cache_backend'[k] = last'.func_result.val
             /\ last'.func_result.kind = "return"]_vars

\* C16 witness: the key holds "v1", and a call that started while it held
\* "v1" has completed as a hit
C16_Witness ==
  /\ last.switch = "1"
  /\ last.before[last.key] = "v1"
  /\ last.invocations = 0
  /\ cache_backend[last.key] = "v1"
  /\ Len(raceLog) = 2

C18_SyncAsyncEquivalence ==
  last # NoRecord =>
     LET hit == last.switch = "1" /\ last.before[last.key] # Missing
         stored == last.switch = "1" /\ ~hit /\ last.func_result.kind = "return"
     IN /\ last.invocations = IF hit THEN 0 ELSE 1
        /\ last.result = IF hit
                         THEN [kind |-> "return", val |-> last.before[last.key]]
                         ELSE last.func_result
        /\ last.after = IF stored
                        THEN [last.before EXCEPT ![last.key] = last.func_result.val]
                        ELSE last.before
        /\ cache_backend = last.after

\* C18 witness: async_wrapper stored "v1" on a miss although the switch was
\* turned off while func was awaited, after an enabled call that failed
C18_Witness ==
  /\ is_async
  /\ last.switch = "1"
  /\ env = "0"
  /\ last.before[last.key] = Missing
  /\ last.after[last.key] = "v1"
  /\ last.result = [kind |-> "return", val |-> "v1"]
  /\ prev.switch = "1" /\ prev.raised

\* C19: when has_key, get or set raises inside an enabled call, the caller
\* gets either what func itself returned (func having run once) or that
\* error; a failed set never makes the call return a value that is not
\* func's, and no failure makes the call return a value without running func.
C19_BackendFailureNotMasked ==
  (last # NoRecord /\ fault # "none") =>
     /\ \/ last.invocations = 1 /\ last.result = last.func_result
        \/ last.result = [kind |-> "raise", val |-> BackendError(fault)]
     /\ fault = "set" =>
           (last.result.kind = "return" => last.result = last.func_result)
     /\ ~(last.invocations = 0 /\ last.result.kind = "return")

\* C19 witness: set raised after func had returned "v1" on a miss; the caller
\* got the error, and the call before it had failed in has_key
C19_Witness ==
  /\ fault = "set"
  /\ last.switch = "1"
  /\ last.invocations = 1
  /\ last.func_result = [kind |-> "return", val |-> "v1"]
  /\ last.result = [kind |-> "raise", val |-> "OSError in set"]
  /\ prev.switch = "1" /\ prev.invocations = 0
  /\ \E k \in DOMAIN cache_backend : cache_backend[k] # Missing

\* ---- chains of parse_output_string activations ----

\* the activation at `s` was called by generate: it starts a chain
ChainStart(s) == s > 1 /\ stack[s].op = "parse" /\ stack[s - 1].op # "parse"

\* the activation at `j` belongs to the chain started at `s`
InChain(s, j) == j >= s /\ \A m \in s..j : stack[m].op = "parse"

\* repair requests issued so far by the chain started at `s`
ChainRepairs(s) ==
  Cardinality({j \in DOMAIN stack :
                 InChain(s, j) /\ stack[j].pc \in {"await_fix", "await_rec"}})

\* C20: in a chain of parse_output_string activations started with
\* max_retries N >= 0, each recursion passes on exactly max_retries - 1,
\* max_retries is never negative, the chain issues at most N repair requests,
\* and RagasOutputParserException is raised only by an activation whose
\* decoding has just failed and whose max_retries is 0.
C20_BudgetInvariant ==
  /\ [](\A s \in DOMAIN stack :
          /\ stack[s].max_retries >= 0
          /\ (s > 1 /\ stack[s].op = "parse" /\ stack[s - 1].op = "parse") =>
                /\ stack[s - 1].pc = "await_rec"
                /\ stack[s].max_retries = stack[s - 1].max_retries - 1
          /\ ChainStart(s) =>
                /\ stack[s].max_retries = stack[s - 1].max_retries
                /\ ChainRepairs(s) <= stack[s].max_retries
                /\ \A j \in DOMAIN stack :
                      InChain(s, j) =>
                         stack[j].max_retries = stack[s].max_retries - (j - s))
  /\ [][(outcome # "Exhausted" /\ outcome' = "Exhausted") =>
          /\ Top.op = "parse"
          /\ Top.pc = "except"
          /\ Top.max_retries = 0
          /\ error'.type = "RagasOutputParserException"]_vars

\* C20 witness: a chain started with 2 has issued its 2 repair requests and
\* its third activation, left with 0, has raised
C20_Witness ==
  /\ budget = 2
  /\ outcome = "Exhausted"
  /\ repairs = 2
  /\ calls = 3
  /\ error = [type |-> "RagasOutputParserException", arg |-> 0]

\* C21: every repair request of an operation is made by an activation whose
\* decoding has just failed, and is built from the text that activation
\* failed on and the prompt text of the caller's original request, never from
\* the prompt of an earlier repair request.
C21_RepairRequestContent ==
  \A i \in DOMAIN stack :
     (i > 1 /\ stack[i].op = "generate" /\ stack[i].parser = "fix") =>
        /\ stack[i - 1].op = "parse"
        /\ stack[i - 1].pc = "await_fix"
        /\ ~Decodes(stack[i - 1].parser, stack[i - 1].output_string)
        /\ stack[i].prompt_value =
              FixPrompt(stack[i - 1].output_string, OriginalPrompt)

\* C22: the switch is read when a call enters the wrapper and is off unless
\* set to "1": a call entered with it unset or off runs func once, returns its
\* result and leaves the backend as it was; a call entered with it on is
\* served the value the first successful enabled call with its key returned,
\* without running func, whatever calls were made with the switch off in
\* between, and runs func on a miss; so the backend holds, per key, exactly
\* the value first returned under an enabled call.
C22_SwitchReadPerCall ==
  /\ last # NoRecord =>
        /\ last.switch # "1" =>
              /\ last.invocations = 1
              /\ last.result = last.func_result
              /\ last.after = last.before
        /\ (last.switch = "1" /\ last.known # Missing) =>
              /\ last.invocations = 0
              /\ last.result = [kind |-> "return", val |-> last.known]
        /\ (last.switch = "1" /\ last.known = Missing) =>
              /\ last.invocations = 1
              /\ last.func_result.kind = "return" =>
                    last.after[last.key] = last.func_result.val
  /\ \A k \in DOMAIN cache_backend : cache_backend[k] = first[k]

\* C22 witness: "v1" was stored under the switch, a call with the same
\* arguments made with the switch off ran func, and the next call, the switch
\* on again, is served "v1"
C22_Witness ==
  /\ last # NoRecord
  /\ env = "1"
  /\ last.switch = "1"
  /\ last.known = "v1"
  /\ last.invocations = 0
  /\ last.result = [kind |-> "return", val |-> "v1"]
  /\ prev.switch = "0"
  /\ prev.call = last.call
  /\ prev.invocations = 1
  /\ ~prev.raised

\* C23: a call that returns None under the switch stores it like any other
\* value, and a later enabled call that finds None stored under its key
\* returns None without running func: presence is what has_key says, not
\* what get returns.
C23_NoneIsCached ==
  last # NoRecord =>
     /\ (last.switch = "1" /\ last.invocations = 1
           /\ last.func_result = [kind |-> "return", val |-> "None"]) =>
           last.after[last.key] = "None"
     /\ (last.switch = "1" /\ last.before[last.key] = "None") =>
           /\ last.invocations = 0
           /\ last.result = [kind |-> "return", val |-> "None"]
           /\ last.ops = 2

\* C23 witness: an enabled call ran func, which returned None, and the same
\* call made next was served None without running func
C23_Witness ==
  /\ last # NoRecord
  /\ last.switch = "1"
  /\ last.before[last.key] = "None"
  /\ last.invocations = 0
  /\ last.result = [kind |-> "return", val |-> "None"]
  /\ prev.switch = "1"
  /\ prev.call = last.call
  /\ prev.invocations = 1
  /\ ~prev.raised

\* C24: generate_multiple makes one model call of its own (every other call
\* is the one call of a repair request); when it returns, the model gave at
\* least n completions and the list holds n results, the i-th decoded from
\* the i-th completion or from its repaired text; with fewer than n
\* completions it does not return a list but fails, on the first candidate
\* that is missing.
C24_MultipleResults ==
  multi_n > 0 =>
     /\ calls <= 1 + repairs
     /\ outcome = "Done" =>
           /\ calls = 1 + repairs
           /\ Len(resp) >= multi_n
           /\ Len(output_models) = multi_n
           /\ \A i \in 1..multi_n :
                 output_models[i] =
                    [model |-> "Output",
                     text |-> IF Decodes("user", resp[i]) THEN resp[i] ELSE "good"]
     /\ outcome = "IndexError" =>
           /\ Len(resp) < multi_n
           /\ multi_i = Len(resp)
           /\ Len(output_models) = Len(resp)

\* C24 witness: two candidates, the first decoded as it came, the second
\* after one repair, returned in that order
C24_Witness ==
  /\ multi_n = 2
  /\ resp = <<"good2", "bad">>
  /\ outcome = "Done"
  /\ output_models = <<[model |-> "Output", text |-> "good2"],
                       [model |-> "Output", text |-> "good"]>>
  /\ repairs = 1
  /\ calls = 2

\* ---- make_batches ----

\* C25: for total_size >= 0 and batch_size >= 1 the list make_batches returns
\* is made of consecutive non-empty ranges in increasing order that start at
\* 0 and end at total_size, so that they are pairwise disjoint and their
\* union is exactly 0..total_size-1; every range has length batch_size except
\* possibly the last, whose length is total_size mod batch_size when that is
\* not zero; total_size = 0 gives the empty list
C25_BatchesPartition ==
  batches # NoBatches =>
     LET n == Len(batches)
         tail == DivMod(total_size, batch_size, 0).rem
     IN /\ total_size = Zero => n = 0
        /\ total_size # Zero => (n > 0 /\ batches[1][1] = Zero
                                       /\ batches[n][2] = total_size)
        /\ \A i \in 1..(n - 1) : batches[i + 1][1] = batches[i][2]
        /\ \A i \in 1..n : Less(batches[i][1], batches[i][2])
        /\ \A i \in 1..n :
              (i < n \/ tail = Zero) =>
                 Sub(batches[i][2], batches[i][1]) = batch_size
        /\ tail # Zero => Sub(batches[n][2], batches[n][1]) = tail

\* ---- validate_messages ----

\* every ToolMessage of ms comes right after an AIMessage whose tool_calls is
\* not None
ToolMessagesFollowCalls(ms) ==
  \A i \in DOMAIN ms :
     ms[i].type = "ToolMessage" =>
        /\ i > 1
        /\ ms[i - 1].type = "AIMessage"
        /\ ms[i - 1].tool_calls # None

\* C26: validate_messages accepts a message sequence if and only if every
\* ToolMessage in it is immediately preceded by an AIMessage whose tool_calls
\* is not None; every other sequence (a ToolMessage first, or right after a
\* HumanMessage or another ToolMessage) is rejected with a ValueError, and an
\* accepted sequence is returned unchanged
C26_ValidateMessages ==
  validated.kind # "none" =>
     /\ validated.kind \in {"returned", "ValueError"}
     /\ validated.kind = "returned" <=> ToolMessagesFollowCalls(messages)
     /\ validated.kind = "returned" => validated.value = messages
     /\ \A i \in DOMAIN messages :
           (/\ messages[i].type = "ToolMessage"
            /\ (i = 1 \/ messages[i - 1].type \in {"HumanMessage", "ToolMessage"}))
              => validated.kind = "ValueError"

\* a sequence with a ToolMessage answering an AIMessage was accepted
C26_Witness ==
  /\ validated.kind = "returned"
  /\ Len(messages) = 3
  /\ \E i \in DOMAIN messages : messages[i].type = "ToolMessage"

\* ---- SingleTurnSample.dict and to_hf_dataset ----

\* C27: SingleTurnSample.dict() terminates and returns the sample's field
\* mapping with every None-valued field removed, and to_hf_dataset, which
\* calls dict() on every sample, terminates as well instead of exhausting
\* the stack
C27_DictTerminates ==
  /\ row # NoRow =>
        /\ row.result.kind = "returned"
        /\ row.result.value = WithoutNone(samples[row.of])
  /\ rows.kind = "raised" => rows.error # "RecursionError"

====
